---- MODULE Spec2Model ----
(***************************************************************************)
(* cuautograde: the thread-level test runner of runner.py                  *)
(* (SynchronizedTestResult, InterruptibleThreadGroup, TimeoutTestRunner)   *)
(* and the process-level job dispatcher of executor.py                     *)
(* (distribute_system_command).                                            *)
(*                                                                         *)
(* The specifications share the variables:                                 *)
(*   SpecResult     a SynchronizedTestResult driven by client threads that *)
(*                  call add* in any order, freeze() and summarize();      *)
(*   SpecGroup      one call of run_tasks_until_timeout of an              *)
(*                  InterruptibleThreadGroup, tasks that record nothing;   *)
(*   SpecGroupAny   the same call with a task list of any length;          *)
(*   Spec           one call of TimeoutTestRunner.run: class setup, the    *)
(*                  thread group with its controller and timer threads,    *)
(*                  the test threads recording into the aggregator,        *)
(*                  freeze, class teardown and the return statement;       *)
(*   SpecRun        the same call on tests that record nothing;            *)
(*   SpecRunPass    the same call on tests that record a success or        *)
(*                  nothing;                                               *)
(*   SpecSubmission one call of process_one_submission, with its checks    *)
(*                  of the result file, of test_root and the import;       *)
(*   SpecDispatch   one call of distribute_system_command;                 *)
(*   FairSpecDispatch the same under a fair scheduling of its threads;     *)
(*   SpecProgress   the same call with the clock its progress lines read;  *)
(*   SpecCmds       the same call with any arguments *cmds.                *)
(* Time is abstracted: a sleeping timer may expire at any moment, a child  *)
(* process may exit at any moment, a test may return, raise or hang.       *)
(***************************************************************************)
EXTENDS Integers, Sequences, FiniteSets, TLC

\* Number of test cases of the suite (len(tests), runner.py:278).
NumTests == 2

\* Cap on the number of add* calls the test threads make in one run.
MaxCalls == 2

Tests == 1..NumTests

\* The test class of a test method: tests 1 and 2 are methods of one class,
\* test 3 and 4 of the next, and so on.
ClassOf(t) == (t + 1) \div 2

Classes == {ClassOf(t) : t \in Tests}

\* The six outcome collections of unittest.TestResult / SynchronizedTestResult.
Categories ==
  {"errors", "failures", "successes", "skipped", "expectedFailures",
   "unexpectedSuccesses"}

NoSummary == [none |-> TRUE]

VARIABLES
  \* ---- SynchronizedTestResult
  errors, failures, successes, skipped, expectedFailures, unexpectedSuccesses,
  frozen,          \* self.frozen
  lock,            \* self.lock is held
  \* ---- test threads (unit_work of one test) and their add* call in flight
  test_pc, method, calls,
  task_called,     \* index of the task each started thread has called
  finalizer_called,\* index of the finalizer each thread has come to
  \* ---- InterruptibleThreadGroup
  tasks_running_count, is_running,
  running_status_lock,   \* the lock is held
  ctrl_pc,         \* the Controller thread (start_and_wait)
  started,         \* number of task threads start_and_wait has started
  timer_pc,        \* the timeout monitor thread (set_timeout.task)
  ntasks,          \* len(tasks) of the thread group
  \* ---- TimeoutTestRunner.run / process_one_submission (main thread)
  main_pc, already_processed, setUpClassCalls, tearDownClassCalls, summary,
  \* ---- process_one_submission: its arguments and the file system
  result_file,                 \* the file at result_file_path
  overwrite_existing_results,  \* the argument of that name
  test_root_valid,             \* os.path.isdir(test_root)
  module_importable,           \* __import__(module) succeeds
  \* ---- distribute_system_command
  queue,           \* list of (id, param)
  results,         \* list of (id, r)
  queue_lock, results_lock,    \* the lock is held
  worker_pc, item, \* the worker threads (task) and the item each has popped
  proc,            \* state of the child process of each job
  launches,        \* number of Popen calls made for each job
  progress,        \* the progress lines printed so far
  spawned,         \* number of worker threads the dispatcher has started
  disp_pc, returned,
  nprocesses,      \* the argument nprocesses: the number of worker threads
  cmds,            \* the arguments *cmds
  returncode,      \* r.returncode of the Popen object of each job
  timed_out,       \* the polling loop of each worker ended by the timeout
  now              \* time.time(), counted from the start of the dispatcher

resultVars ==
  <<errors, failures, successes, skipped, expectedFailures,
    unexpectedSuccesses, frozen, lock>>
collections ==
  <<errors, failures, successes, skipped, expectedFailures,
    unexpectedSuccesses>>
calledVars == <<task_called, finalizer_called>>
threadVars == <<test_pc, method, calls, calledVars>>
groupVars ==
  <<tasks_running_count, is_running, running_status_lock, ctrl_pc, started,
    timer_pc, ntasks>>
classVars == <<already_processed, setUpClassCalls, tearDownClassCalls>>
submissionVars ==
  <<result_file, overwrite_existing_results, test_root_valid,
    module_importable>>
mainVars == <<main_pc, already_processed, setUpClassCalls, tearDownClassCalls,
              summary, submissionVars>>

runnerVars == <<resultVars, threadVars, groupVars, mainVars>>
dispatchVars ==
  <<queue, results, queue_lock, results_lock, worker_pc, item, proc,
    launches, progress, spawned, disp_pc, returned, nprocesses, cmds,
    returncode, timed_out, now>>

Range(s) == {s[i] : i \in 1..Len(s)}

(***************************************************************************)
(* SynchronizedTestResult                                                  *)
(***************************************************************************)

\* __init__: the six collections are empty, frozen is False, the lock free.
ResultInit ==
  /\ errors = <<>> /\ failures = <<>> /\ successes = <<>>
  /\ skipped = <<>> /\ expectedFailures = <<>> /\ unexpectedSuccesses = <<>>
  /\ frozen = FALSE
  /\ lock = FALSE

\* `with self.lock:` can be entered: the lock is free.
LockFree_Unchecked == TRUE

LockFree == ~lock

\* `if not self.frozen:` of every add* method.
NotFrozen_Unchecked == TRUE

NotFrozen == ~frozen

\* self.<m>.append(...): the collection of method m gets the test appended.
\* The detail text stored with the test (traceback, reason) is left out.
Store(m, t) ==
  /\ errors' = IF m = "errors" THEN Append(errors, t) ELSE errors
  /\ failures' = IF m = "failures" THEN Append(failures, t) ELSE failures
  /\ successes' = IF m = "successes" THEN Append(successes, t) ELSE successes
  /\ skipped' = IF m = "skipped" THEN Append(skipped, t) ELSE skipped
  /\ expectedFailures' =
       IF m = "expectedFailures" THEN Append(expectedFailures, t)
       ELSE expectedFailures
  /\ unexpectedSuccesses' =
       IF m = "unexpectedSuccesses" THEN Append(unexpectedSuccesses, t)
       ELSE unexpectedSuccesses

\* One add* method called by the thread of test t for its own test, in three
\* steps: take the lock, test the frozen flag, append and release.
AddCall(t, m) ==
  \/ /\ test_pc[t] = "run"
     /\ calls < MaxCalls
     /\ LockFree
     /\ lock' = TRUE
     /\ test_pc' = [test_pc EXCEPT ![t] = "locked"]
     /\ method' = [method EXCEPT ![t] = m]
     /\ calls' = calls + 1
     /\ UNCHANGED <<collections, frozen>>
  \/ /\ test_pc[t] = "locked" /\ method[t] = m
     /\ IF NotFrozen
          THEN /\ test_pc' = [test_pc EXCEPT ![t] = "append"]
               /\ UNCHANGED <<lock, method>>
          ELSE /\ test_pc' = [test_pc EXCEPT ![t] = "run"]
               /\ method' = [method EXCEPT ![t] = "none"]
               /\ lock' = FALSE
     /\ UNCHANGED <<collections, frozen, calls>>
  \/ /\ test_pc[t] = "append" /\ method[t] = m
     /\ Store(m, t)
     /\ lock' = FALSE
     /\ test_pc' = [test_pc EXCEPT ![t] = "run"]
     /\ method' = [method EXCEPT ![t] = "none"]
     /\ UNCHANGED <<frozen, calls>>

addError(t) == AddCall(t, "errors")
addFailure(t) == AddCall(t, "failures")
addSuccess(t) == AddCall(t, "successes")
addSkip(t) == AddCall(t, "skipped")
addExpectedFailure(t) == AddCall(t, "expectedFailures")
addUnexpectedSuccess(t) == AddCall(t, "unexpectedSuccesses")

\* Any add* call of the thread of test t.
Record(t) ==
  /\ \/ addError(t) \/ addFailure(t) \/ addSuccess(t)
     \/ addSkip(t) \/ addExpectedFailure(t) \/ addUnexpectedSuccess(t)
  /\ UNCHANGED <<calledVars, groupVars, mainVars, dispatchVars>>

\* The value freeze() gives the flag: `self.frozen = True`.
FreezeValue_Toggle == ~frozen

FreezeValue == TRUE

\* freeze(), called by the main thread: take the lock, then set the flag and
\* release. `next` is where the caller goes on.
freeze(next) ==
  \/ /\ main_pc = "freeze"
     /\ LockFree
     /\ lock' = TRUE
     /\ main_pc' = "freeze_locked"
     /\ UNCHANGED <<collections, frozen>>
  \/ /\ main_pc = "freeze_locked"
     /\ frozen' = FreezeValue
     /\ lock' = FALSE
     /\ main_pc' = next
     /\ UNCHANGED collections

\* getStatusAsString(test): the first of the six tests that finds the test
\* in its collection decides the text (func_name is left out of it).
GetStatusAsString_SuccessFirst(t) ==
  IF Len(successes) > 0 /\ t \in Range(successes)
    THEN "Completed with success"
  ELSE IF Len(errors) > 0 /\ t \in Range(errors)
    THEN "Completed with error"
  ELSE IF Len(failures) > 0 /\ t \in Range(failures)
    THEN "Completed with failure"
  ELSE IF Len(skipped) > 0 /\ t \in Range(skipped)
    THEN "Skipped"
  ELSE IF Len(expectedFailures) > 0 /\ t \in Range(expectedFailures)
    THEN "Completed with expected failure"
  ELSE IF Len(unexpectedSuccesses) > 0 /\ t \in Range(unexpectedSuccesses)
    THEN "Completed with unexpected success"
  ELSE "Not completed"

GetStatusAsString(t) ==
  IF Len(errors) > 0 /\ t \in Range(errors)
    THEN "Completed with error"
  ELSE IF Len(failures) > 0 /\ t \in Range(failures)
    THEN "Completed with failure"
  ELSE IF Len(successes) > 0 /\ t \in Range(successes)
    THEN "Completed with success"
  ELSE IF Len(skipped) > 0 /\ t \in Range(skipped)
    THEN "Skipped"
  ELSE IF Len(expectedFailures) > 0 /\ t \in Range(expectedFailures)
    THEN "Completed with expected failure"
  ELSE IF Len(unexpectedSuccesses) > 0 /\ t \in Range(unexpectedSuccesses)
    THEN "Completed with unexpected success"
  ELSE "Not completed"

\* summarize(all_tests): the keys of the four dicts, the two lists, the key
\* set of allTests and aborted = set(all ids) - union of the six.
Summarize_NoneAborted(all_tests) ==
  [errors |-> Range(errors),
   failures |-> Range(failures),
   successes |-> successes,
   skipped |-> Range(skipped),
   expectedFailures |-> Range(expectedFailures),
   unexpectedSuccesses |-> unexpectedSuccesses,
   allTests |-> all_tests,
   aborted |-> {}]

Summarize(all_tests) ==
  LET processed_union ==
        Range(errors) \cup Range(failures) \cup Range(successes)
          \cup Range(skipped) \cup Range(expectedFailures)
          \cup Range(unexpectedSuccesses)
  IN [errors |-> Range(errors),
      failures |-> Range(failures),
      successes |-> successes,
      skipped |-> Range(skipped),
      expectedFailures |-> Range(expectedFailures),
      unexpectedSuccesses |-> unexpectedSuccesses,
      allTests |-> all_tests,
      aborted |-> all_tests \ processed_union]

\* result.summarize(tests) of a client that holds the result.
summarize ==
  /\ main_pc = "summarize"
  /\ summary' = Summarize(Tests)
  /\ UNCHANGED <<resultVars, threadVars, groupVars, main_pc, classVars,
                 submissionVars, dispatchVars>>

(***************************************************************************)
(* InterruptibleThreadGroup                                                *)
(***************************************************************************)

\* __init__: the counter is len(tasks), the group is not running, no thread
\* is started.  (The fields are shown at these values also before run()
\* constructs the group.)
GroupInitOf(n) ==
  /\ ntasks = n
  /\ tasks_running_count = n
  /\ is_running = FALSE
  /\ running_status_lock = FALSE
  /\ ctrl_pc = "unstarted"
  /\ started = 0
  /\ timer_pc = "unstarted"

\* The group of run: one task for every test of the suite (lines 278-284).
GroupInit == GroupInitOf(NumTests)

\* The process lives until the main thread ends with the uncaught exception;
\* the task threads and the timer are daemon threads and die with it.
ProcessAlive == main_pc # "NameError"

\* running_status_changed.notify_all(): a thread blocked in wait() is woken
\* and has to take the lock again; a notification with no waiter is lost.
NotifyAll ==
  ctrl_pc' = IF ctrl_pc = "waiting" THEN "woken" ELSE ctrl_pc

\* `if self.tasks_running_count == 0:` after the decrement.
CountIsZero_Always(n) == TRUE

CountIsZero(n) == n = 0

\* The index of the entry of tasks and finalizers that unit_work of thread i
\* names.  `task` and `finalizer` are the variables of the loop of __init__
\* (line 112), looked up when unit_work runs: by then the loop is over and
\* they hold the last entries.  The thread's param is its own args[i].
BoundIndex(i) == ntasks

\* unit_work, the body of the thread of test t: task(param), which records
\* outcomes through add* and returns, raises or never returns; the finalizer;
\* then, under the lock, the decrement and the signal at zero.
TaskReturns(t) ==
  /\ test_pc[t] = "run"
  /\ test_pc' = [test_pc EXCEPT ![t] = "finalizer"]
  /\ UNCHANGED <<method, calls, calledVars, groupVars>>

TaskRaises(t) ==
  /\ test_pc[t] = "run"
  /\ test_pc' = [test_pc EXCEPT ![t] = "raised"]
  /\ UNCHANGED <<method, calls, calledVars, groupVars>>

TaskHangs(t) ==
  /\ test_pc[t] = "run"
  /\ test_pc' = [test_pc EXCEPT ![t] = "hung"]
  /\ UNCHANGED <<method, calls, calledVars, groupVars>>

\* `if finalizer is not None: finalizer(param)`
Finalizer(t) ==
  /\ test_pc[t] = "finalizer"
  /\ finalizer_called' = [finalizer_called EXCEPT ![t] = BoundIndex(t)]
  /\ test_pc' = [test_pc EXCEPT ![t] = "count"]
  /\ UNCHANGED <<method, calls, task_called, groupVars>>

CountEnter(t) ==
  /\ test_pc[t] = "count"
  /\ ~running_status_lock
  /\ running_status_lock' = TRUE
  /\ test_pc' = [test_pc EXCEPT ![t] = "counting"]
  /\ UNCHANGED <<method, calls, calledVars, tasks_running_count, is_running,
                 ctrl_pc, started, ntasks, timer_pc>>

\* self.tasks_running_count -= 1 (line 119)
Decremented_Not(n) == n

Decremented(n) == n - 1

CountDown(t) ==
  /\ test_pc[t] = "counting"
  /\ tasks_running_count' = Decremented(tasks_running_count)
  /\ IF CountIsZero(tasks_running_count')
       THEN is_running' = FALSE /\ NotifyAll
       ELSE UNCHANGED <<is_running, ctrl_pc>>
  /\ running_status_lock' = FALSE
  /\ test_pc' = [test_pc EXCEPT ![t] = "done"]
  /\ UNCHANGED <<method, calls, calledVars, started, ntasks, timer_pc>>

unit_work(t) ==
  /\ ProcessAlive
  /\ \/ TaskReturns(t) \/ TaskRaises(t) \/ TaskHangs(t)
     \/ Finalizer(t) \/ CountEnter(t) \/ CountDown(t)
  /\ UNCHANGED <<resultVars, mainVars, dispatchVars>>

\* start_and_wait, the body of the Controller thread: start the task threads
\* in order, then under the lock set is_running and wait while it is set.
StartThread ==
  /\ ctrl_pc = "starting"
  /\ started < ntasks
  /\ started' = started + 1
  /\ test_pc' = [test_pc EXCEPT ![started + 1] = "run"]
  /\ task_called' =
       [task_called EXCEPT ![started + 1] = BoundIndex(started + 1)]
  /\ UNCHANGED <<method, calls, finalizer_called, tasks_running_count,
                 is_running, running_status_lock, ctrl_pc, timer_pc, ntasks>>

WaitEnter ==
  /\ ctrl_pc = "starting"
  /\ started = ntasks
  /\ ~running_status_lock
  /\ running_status_lock' = TRUE
  /\ ctrl_pc' = "locked"
  /\ UNCHANGED <<threadVars, tasks_running_count, is_running, started, ntasks,
                 timer_pc>>

\* `self.is_running = True` (line 135), whatever the counter n is.
RunningAtStart_IfTasksLeft(n) == n > 0

RunningAtStart(n) == TRUE

SetRunning ==
  /\ ctrl_pc = "locked"
  /\ is_running' = RunningAtStart(tasks_running_count)
  /\ ctrl_pc' = "check"
  /\ UNCHANGED <<threadVars, tasks_running_count, running_status_lock,
                 started, ntasks, timer_pc>>

\* `while self.is_running: wait()`: wait() releases the lock and blocks; when
\* the flag is clear the with block ends and the thread is over.
WaitOrLeave ==
  /\ ctrl_pc = "check"
  /\ ctrl_pc' = IF is_running THEN "waiting" ELSE "done"
  /\ running_status_lock' = FALSE
  /\ UNCHANGED <<threadVars, tasks_running_count, is_running, started, ntasks,
                 timer_pc>>

\* wait() returns after a notification, once the lock is taken again.
Wakeup ==
  /\ ctrl_pc = "woken"
  /\ ~running_status_lock
  /\ running_status_lock' = TRUE
  /\ ctrl_pc' = "check"
  /\ UNCHANGED <<threadVars, tasks_running_count, is_running, started, ntasks,
                 timer_pc>>

start_and_wait ==
  /\ \/ StartThread \/ WaitEnter \/ SetRunning \/ WaitOrLeave \/ Wakeup
  /\ UNCHANGED <<resultVars, mainVars, dispatchVars>>

\* set_timeout.task, the timer thread: when the sleep is over it calls
\* stop_all_tasks, which takes the lock, clears is_running and notifies.
TimerExpires ==
  /\ timer_pc = "sleeping"
  /\ ~running_status_lock
  /\ running_status_lock' = TRUE
  /\ timer_pc' = "stopping"
  /\ UNCHANGED <<threadVars, tasks_running_count, is_running, ctrl_pc,
                 started, ntasks>>

stop_all_tasks ==
  /\ timer_pc = "stopping"
  /\ is_running' = FALSE
  /\ NotifyAll
  /\ running_status_lock' = FALSE
  /\ timer_pc' = "done"
  /\ UNCHANGED <<threadVars, tasks_running_count, started, ntasks>>

Timer ==
  /\ ProcessAlive
  /\ TimerExpires \/ stop_all_tasks
  /\ UNCHANGED <<resultVars, mainVars, dispatchVars>>

(***************************************************************************)
(* TimeoutTestRunner                                                       *)
(***************************************************************************)

\* process_test_cases(entity, func_name, already_processed): the traversal of
\* the suite from test i on; ap is the set already_processed, n the number of
\* calls of func_name per class.
\* `t.__class__ in already_processed` (line 266)
AlreadyProcessed_Never(c, ap) == FALSE

AlreadyProcessed(c, ap) == c \in ap

RECURSIVE ProcessTestCases(_, _, _)
ProcessTestCases(i, ap, n) ==
  IF i > NumTests THEN [ap |-> ap, n |-> n]
  ELSE IF ~AlreadyProcessed(ClassOf(i), ap)
    THEN ProcessTestCases(i + 1, ap \cup {ClassOf(i)},
                          [n EXCEPT ![ClassOf(i)] = @ + 1])
    ELSE ProcessTestCases(i + 1, ap, n)

\* run, line 277: process_test_cases(test_entity, 'setUpClass').  The default
\* argument already_processed is one set, made when the function is defined.
SetUpClasses ==
  /\ main_pc = "setUpClass"
  /\ LET r == ProcessTestCases(1, already_processed, setUpClassCalls)
     IN /\ already_processed' = r.ap
        /\ setUpClassCalls' = r.n
  /\ main_pc' = "start"
  /\ UNCHANGED <<resultVars, threadVars, groupVars, tearDownClassCalls,
                 summary, submissionVars>>

\* run_tasks_until_timeout: tg = cls(...); tg.start()
GroupStart ==
  /\ main_pc = "start"
  /\ ctrl_pc' = "starting"
  /\ main_pc' = "set_timeout"
  /\ UNCHANGED <<resultVars, threadVars, tasks_running_count, is_running,
                 running_status_lock, started, ntasks, timer_pc, classVars,
                 summary, submissionVars>>

\* run_tasks_until_timeout: tg.set_timeout(timeout) starts the timer thread.
set_timeout ==
  /\ main_pc = "set_timeout"
  /\ timer_pc' = "sleeping"
  /\ main_pc' = "join"
  /\ UNCHANGED <<resultVars, threadVars, tasks_running_count, is_running,
                 running_status_lock, ctrl_pc, started, ntasks, classVars,
                 summary, submissionVars>>

\* The Controller thread has ended.
ControllerOver_Always == TRUE

ControllerOver == ctrl_pc = "done"

\* run_tasks_until_timeout: tg.join() returns when the Controller thread is
\* over, and run_tasks_until_timeout returns with it. `next` is where the
\* caller goes on.
Join(next) ==
  /\ main_pc = "join"
  /\ ControllerOver
  /\ main_pc' = next
  /\ UNCHANGED <<resultVars, threadVars, groupVars, classVars, summary,
                 submissionVars>>

\* run, lines 283-284: the call of run_tasks_until_timeout.
run_tasks_until_timeout(next) ==
  GroupStart \/ set_timeout \/ Join(next)

\* run, line 285: result.freeze()
RunFreeze ==
  /\ freeze("tearDownClass")
  /\ UNCHANGED <<threadVars, groupVars, classVars, summary, submissionVars>>

\* run, line 286: process_test_cases(test_entity, 'tearDownClass')
TearDownClasses ==
  /\ main_pc = "tearDownClass"
  /\ LET r == ProcessTestCases(1, already_processed, tearDownClassCalls)
     IN /\ already_processed' = r.ap
        /\ tearDownClassCalls' = r.n
  /\ main_pc' = "return"
  /\ UNCHANGED <<resultVars, threadVars, groupVars, setUpClassCalls, summary,
                 submissionVars>>

\* run, line 287: `return resulti` names a variable that does not exist: the
\* statement raises NameError, run returns nothing, and process_one_submission
\* (lines 327-328) never reaches result.summarize(tests).
RunReturn ==
  /\ main_pc = "return"
  /\ main_pc' = "NameError"
  /\ UNCHANGED <<resultVars, threadVars, groupVars, classVars, summary,
                 submissionVars>>

run ==
  /\ \/ SetUpClasses \/ run_tasks_until_timeout("freeze") \/ RunFreeze
     \/ TearDownClasses \/ RunReturn
  /\ UNCHANGED dispatchVars

(***************************************************************************)
(* process_one_submission                                                  *)
(***************************************************************************)

\* The arguments and the file system of a call: the result file is absent or
\* holds the Summary of an earlier run ("old"), which needs test_root to be a
\* directory.
SubmissionInit ==
  /\ result_file \in {"absent", "old"}
  /\ overwrite_existing_results \in BOOLEAN
  /\ test_root_valid \in BOOLEAN
  /\ module_importable \in BOOLEAN
  /\ result_file = "old" => test_root_valid

\* A call that has passed its checks and imported the test module.
SubmissionChecked ==
  /\ result_file = "absent"
  /\ overwrite_existing_results = FALSE
  /\ test_root_valid = TRUE
  /\ module_importable = TRUE

\* Lines 303-308: an existing result file ends the job with exit(1) unless
\* overwrite_existing_results is set.
CheckResultFile ==
  /\ main_pc = "check_file"
  /\ main_pc' = IF result_file # "absent" /\ ~overwrite_existing_results
                  THEN "exit_1" ELSE "check_root"

\* Lines 316-318: a test_root that is no directory raises an exception.
CheckTestRoot ==
  /\ main_pc = "check_root"
  /\ main_pc' = IF ~test_root_valid THEN "InvalidTestRoot" ELSE "import"

\* __import__(module) returns the module.
ImportSucceeds_Always == TRUE

ImportSucceeds == module_importable

\* Lines 325-327: __import__ raises ImportError, which nothing catches, or the
\* tests of the module are loaded and run is called on them.
ImportModule ==
  /\ main_pc = "import"
  /\ main_pc' = IF ImportSucceeds THEN "setUpClass" ELSE "ImportError"

\* process_one_submission up to its call of run; the exception that ends run
\* ends the job, so that lines 328-345 (summarize, the writing of the result
\* file, exit(2)) are never reached.
process_one_submission ==
  /\ CheckResultFile \/ CheckTestRoot \/ ImportModule
  /\ UNCHANGED <<resultVars, threadVars, groupVars, classVars, summary,
                 submissionVars, dispatchVars>>

(***************************************************************************)
(* distribute_system_command (executor.py; parallel.py holds a copy)       *)
(***************************************************************************)

\* Number of jobs (count, executor.py:16) and of worker threads (nprocesses).
NumJobs == 2

NumWorkers == 2

Jobs == 1..NumJobs
Workers == 1..NumWorkers

\* item = None
None == <<>>

\* queue = zip(range(count), params): job j has id j - 1 and param j.
RECURSIVE Zip(_)
Zip(n) == IF n = 0 THEN <<>> ELSE Append(Zip(n - 1), <<n - 1, n>>)

\* An argument of *cmds is a string or a list; of a list its length matters.
Scalar == [iterable |-> FALSE, len |-> 0]

List(n) == [iterable |-> TRUE, len |-> n]

\* Number of arguments in *cmds.
NumCmds == 2

\* The calls considered: every argument a string or a list of up to NumJobs
\* elements.
CmdsInputs == [1..NumCmds -> {Scalar} \cup {List(n) : n \in 0..NumJobs}]

\* The call of __main__ (lines 96-100): strings and lists of one length.
MainCmds == [i \in 1..NumCmds |-> IF i = 1 THEN Scalar ELSE List(NumJobs)]

\* iter_not_string (lines 10-11)
iter_not_string(c) == c.iterable

SetMax(S) == CHOOSE x \in S : \A y \in S : y <= x

SetMin(S) == CHOOSE x \in S : \A y \in S : x <= y

\* count = max(map(lambda l: len(l) if iter_not_string(l) else 1, cmds))
\* (line 16)
Count(c) ==
  SetMax({IF iter_not_string(c[i]) THEN c[i].len ELSE 1 : i \in 1..Len(c)})

\* len(params), params = zip(*[c if iter_not_string(c) else ([c] * count)
\* for c in cmds]) (line 17): zip stops at the end of the shortest list.
ParamsLen(c) ==
  SetMin({IF iter_not_string(c[i]) THEN c[i].len ELSE Count(c) :
            i \in 1..Len(c)})

\* queue = zip(range(count), params) (line 18)
Queue(c) == Zip(SetMin({Count(c), ParamsLen(c)}))

\* total_task_count = count (line 19)
total_task_count == Count(cmds)

\* The state before the worker threads are started (lines 16-23, 49), for a
\* call with one to NumWorkers worker threads.
DispatchInit ==
  /\ nprocesses \in 1..NumWorkers
  /\ cmds \in CmdsInputs
  /\ returncode = [j \in Jobs |-> "None"]
  /\ timed_out = [w \in Workers |-> FALSE]
  /\ now = 0
  /\ queue = Queue(cmds)
  /\ results = <<>>
  /\ queue_lock = FALSE
  /\ results_lock = FALSE
  /\ worker_pc = [w \in Workers |-> "unstarted"]
  /\ item = [w \in Workers |-> None]
  /\ proc = [j \in Jobs |-> "none"]
  /\ launches = [j \in Jobs |-> 0]
  /\ progress = <<>>
  /\ spawned = 0
  /\ disp_pc = "spawn"
  /\ returned = <<>>

\* `while len(queue) > 0:` (line 26), read without the lock.
LoopTest(w) ==
  /\ worker_pc[w] = "loop"
  /\ worker_pc' = [worker_pc EXCEPT ![w] = IF Len(queue) > 0 THEN "take"
                                           ELSE "exit"]
  /\ item' = [item EXCEPT ![w] = None]
  /\ UNCHANGED <<returncode, timed_out, now>>
  /\ UNCHANGED <<queue, results, queue_lock, results_lock, proc, launches,
                 progress>>

\* `with queue_lock:` (line 28)
TakeLock(w) ==
  /\ worker_pc[w] = "take"
  /\ ~queue_lock
  /\ queue_lock' = TRUE
  /\ worker_pc' = [worker_pc EXCEPT ![w] = "locked"]
  /\ UNCHANGED <<returncode, timed_out, now>>
  /\ UNCHANGED <<queue, results, results_lock, item, proc, launches,
                 progress>>

\* `if len(queue) > 0:` under the lock (line 29); with an empty queue the
\* item stays None and the loop starts again.
QueueTest(w) ==
  /\ worker_pc[w] = "locked"
  /\ IF Len(queue) > 0
       THEN /\ worker_pc' = [worker_pc EXCEPT ![w] = "pop"]
            /\ UNCHANGED queue_lock
       ELSE /\ worker_pc' = [worker_pc EXCEPT ![w] = "loop"]
            /\ queue_lock' = FALSE
  /\ UNCHANGED <<returncode, timed_out, now>>
  /\ UNCHANGED <<queue, results, results_lock, item, proc, launches,
                 progress>>

\* `item = queue.pop()` (line 30): the last item of the list.
Pop(w) ==
  /\ worker_pc[w] = "pop"
  /\ Len(queue) > 0
  /\ item' = [item EXCEPT ![w] = queue[Len(queue)]]
  /\ queue' = SubSeq(queue, 1, Len(queue) - 1)
  /\ queue_lock' = FALSE
  /\ worker_pc' = [worker_pc EXCEPT ![w] = "launch"]
  /\ UNCHANGED <<returncode, timed_out, now>>
  /\ UNCHANGED <<results, results_lock, proc, launches, progress>>

\* subprocess.Popen(param, ...) (line 35) starts the child process.
Launch(w) ==
  /\ worker_pc[w] = "launch"
  /\ proc' = [proc EXCEPT ![item[w][2]] = "running"]
  /\ launches' = [launches EXCEPT ![item[w][2]] = @ + 1]
  /\ worker_pc' = [worker_pc EXCEPT ![w] = "poll"]
  /\ UNCHANGED <<returncode, timed_out, now>>
  /\ UNCHANGED <<queue, results, queue_lock, results_lock, item, progress>>

\* subprocess.Popen raises OSError when the command cannot be started; task
\* has no handler, so the exception ends the worker thread.
LaunchFails(w) ==
  /\ worker_pc[w] = "launch"
  /\ launches' = [launches EXCEPT ![item[w][2]] = @ + 1]
  /\ worker_pc' = [worker_pc EXCEPT ![w] = "raised"]
  /\ UNCHANGED <<returncode, timed_out, now>>
  /\ UNCHANGED <<queue, results, queue_lock, results_lock, item, proc,
                 progress>>

\* r.poll() == None: the child has not exited.
Alive(j) == proc[j] \in {"running", "term_sent"}

\* r.poll(): None while the child has not exited, else its status, which
\* r.returncode keeps.
Poll(j) == IF Alive(j) THEN "None" ELSE proc[j]

\* The condition of the polling loop (line 36), rc being what r.poll()
\* returned and elapsed whether time.time() - task_start_time has reached
\* the timeout.
LoopCondition_NoTimeout(rc, elapsed) == rc = "None"

LoopCondition_Never(rc, elapsed) == FALSE

LoopCondition(rc, elapsed) == rc = "None" /\ ~elapsed

\* The polling loop (lines 36-37) ends when the child has exited or when the
\* timeout has elapsed; a turn of the loop that sleeps changes nothing.  `and`
\* evaluates the time test only when r.poll() returned None: timed_out notes
\* that it was evaluated and found the timeout elapsed.
PollEnds(w) ==
  /\ worker_pc[w] = "poll"
  /\ \E elapsed \in BOOLEAN :
       /\ ~LoopCondition(Poll(item[w][2]), elapsed)
       /\ timed_out' =
            [timed_out EXCEPT ![w] = Poll(item[w][2]) = "None" /\ elapsed]
  /\ returncode' = [returncode EXCEPT ![item[w][2]] = Poll(item[w][2])]
  /\ worker_pc' = [worker_pc EXCEPT ![w] = "check"]
  /\ UNCHANGED <<queue, results, queue_lock, results_lock, item, proc,
                 launches, progress, now>>

\* `if r.poll() == None: r.terminate()` (lines 38-40): SIGTERM is sent to a
\* child that is still alive; terminate() returns at once, the child is not
\* waited for.
Terminate(w) ==
  /\ worker_pc[w] = "check"
  /\ returncode' = [returncode EXCEPT ![item[w][2]] = Poll(item[w][2])]
  /\ proc' = IF Poll(item[w][2]) = "None"
               THEN [proc EXCEPT ![item[w][2]] = "term_sent"]
               ELSE proc
  /\ timed_out' = [timed_out EXCEPT ![w] = FALSE]
  /\ worker_pc' = [worker_pc EXCEPT ![w] = "record"]
  /\ UNCHANGED <<queue, results, queue_lock, results_lock, item, launches,
                 progress, now>>

\* results_lock can be acquired.
ResultsLockFree_Unchecked == TRUE

ResultsLockFree == ~results_lock

\* `with results_lock:` (line 41)
RecordLock(w) ==
  /\ worker_pc[w] = "record"
  /\ ResultsLockFree
  /\ results_lock' = TRUE
  /\ worker_pc' = [worker_pc EXCEPT ![w] = "append"]
  /\ UNCHANGED <<returncode, timed_out, now>>
  /\ UNCHANGED <<queue, results, queue_lock, item, proc, launches, progress>>

\* results.append((id, r)) (line 42); r is the Popen object of the param.
RecordResult(w) ==
  /\ worker_pc[w] = "append"
  /\ results' = Append(results, <<item[w][1], item[w][2]>>)
  /\ worker_pc' = [worker_pc EXCEPT ![w] = "print"]
  /\ UNCHANGED <<returncode, timed_out, now>>
  /\ UNCHANGED <<queue, queue_lock, results_lock, item, proc, launches,
                 progress>>

SecondsPerMinute == 60

\* len(results) (lines 44, 45)
ResultCount_BeforeAppend(res) == Len(res) - 1

ResultCount(res) == Len(res)

\* The quotient n / d of two numbers, kept as the pair <<n, d>>; a quotient
\* is itself divided or multiplied as the pairs are.
\* avg_time = time_elapsed / len(results) (line 44)
AvgTime(time_elapsed, res) == <<time_elapsed, ResultCount(res)>>

\* projected_time = avg_time * (total_task_count - tasks_done) / 60 (line 46)
ProjectedTime(avg_time, tasks_done) ==
  <<avg_time[1] * (total_task_count - tasks_done),
    avg_time[2] * SecondsPerMinute>>

\* The progress line (lines 43-48): time_elapsed is read from the clock,
\* start_time being 0, then avg_time, tasks_done and projected_time follow;
\* the line printed holds tasks_done, total_task_count and projected_time.
\* Then the lock is released and the loop starts again.
PrintProgress(w) ==
  /\ worker_pc[w] = "print"
  /\ progress' =
       Append(progress,
              [time_elapsed |-> now,
               tasks_done |-> ResultCount(results),
               projected_time |->
                 ProjectedTime(AvgTime(now, results), ResultCount(results))])
  /\ results_lock' = FALSE
  /\ worker_pc' = [worker_pc EXCEPT ![w] = "loop"]
  /\ UNCHANGED <<returncode, timed_out, now>>
  /\ UNCHANGED <<queue, results, queue_lock, item, proc, launches>>

\* task, the body of a worker thread.
task(w) ==
  /\ \/ LoopTest(w) \/ TakeLock(w) \/ QueueTest(w) \/ Pop(w)
     \/ Launch(w) \/ LaunchFails(w) \/ PollEnds(w) \/ Terminate(w)
     \/ RecordLock(w) \/ RecordResult(w) \/ PrintProgress(w)
  /\ UNCHANGED <<spawned, disp_pc, returned, nprocesses, cmds, runnerVars>>

\* A child process exits by itself, with status zero or not.
ProcessExits(j) ==
  /\ proc[j] = "running"
  /\ \E st \in {"exit_zero", "exit_nonzero"} : proc' = [proc EXCEPT ![j] = st]
  /\ UNCHANGED <<queue, results, queue_lock, results_lock, worker_pc, item,
                 launches, progress, spawned, disp_pc, returned, nprocesses,
                 cmds, returncode, timed_out, now, runnerVars>>

\* A child process that was sent SIGTERM dies of it.
ProcessDies(j) ==
  /\ proc[j] = "term_sent"
  /\ proc' = [proc EXCEPT ![j] = "killed"]
  /\ UNCHANGED <<queue, results, queue_lock, results_lock, worker_pc, item,
                 launches, progress, spawned, disp_pc, returned, nprocesses,
                 cmds, returncode, timed_out, now, runnerVars>>

\* The clock advances.  It is read at line 43 only, by the worker that holds
\* results_lock: the time that has passed since the last reading shows there.
MaxTime == 1

Tick ==
  /\ now < MaxTime
  /\ \E w \in Workers : worker_pc[w] = "print"
  /\ now' = now + 1
  /\ UNCHANGED <<queue, results, queue_lock, results_lock, worker_pc, item,
                 proc, launches, progress, spawned, disp_pc, returned,
                 nprocesses, cmds, returncode, timed_out, runnerVars>>

\* range(nprocesses) (line 50) has an i left after n threads were started.
InRange_AnyWorker(n) == n < NumWorkers

InRange(n) == n < nprocesses

\* `for i in range(nprocesses): ... thread.start()` (lines 50-53)
Spawn ==
  /\ disp_pc = "spawn"
  /\ IF InRange(spawned)
       THEN /\ spawned' = spawned + 1
            /\ worker_pc' = [worker_pc EXCEPT ![spawned + 1] = "loop"]
            /\ UNCHANGED disp_pc
       ELSE /\ disp_pc' = "join"
            /\ UNCHANGED <<spawned, worker_pc>>
  /\ UNCHANGED <<queue, results, queue_lock, results_lock, item, proc,
                 launches, progress, returned, nprocesses, cmds, returncode,
                 timed_out, now, runnerVars>>

\* sorted(results, key=lambda r: r[0]): insertion of one pair by its id.
RECURSIVE Insert(_, _)
Insert(s, x) ==
  IF s = <<>> THEN <<x>>
  ELSE IF x[1] < s[1][1] THEN <<x>> \o s
  ELSE <<s[1]>> \o Insert(Tail(s), x)

RECURSIVE Sorted(_)
Sorted(s) == IF s = <<>> THEN <<>>
             ELSE Insert(Sorted(SubSeq(s, 1, Len(s) - 1)), s[Len(s)])

\* `for t in threads: t.join()` and the return statement (lines 54-56): the
\* results sorted by id, each mapped to its r.
JoinAndReturn ==
  /\ disp_pc = "join"
  /\ \A w \in 1..nprocesses : worker_pc[w] \in {"exit", "raised"}
  /\ returned' = [i \in 1..Len(results) |-> Sorted(results)[i][2]]
  /\ disp_pc' = "done"
  /\ UNCHANGED <<queue, results, queue_lock, results_lock, worker_pc, item,
                 proc, launches, progress, spawned, nprocesses, cmds,
                 returncode, timed_out, now, runnerVars>>

ClassInit ==
  /\ already_processed = {}
  /\ setUpClassCalls = [c \in Classes |-> 0]
  /\ tearDownClassCalls = [c \in Classes |-> 0]

\* One call of TimeoutTestRunner(timeout).run(tests) by
\* process_one_submission.
Init ==
  /\ ResultInit
  /\ GroupInit
  /\ ClassInit
  /\ test_pc = [t \in Tests |-> "unstarted"]
  /\ method = [t \in Tests |-> "none"]
  /\ task_called = [t \in Tests |-> 0]
  /\ finalizer_called = [t \in Tests |-> 0]
  /\ calls = 0
  /\ main_pc = "setUpClass"
  /\ summary = NoSummary
  /\ SubmissionChecked
  /\ DispatchInit
  /\ nprocesses = NumWorkers
  /\ cmds = MainCmds

Next ==
  \/ run
  \/ start_and_wait
  \/ Timer
  \/ \E t \in Tests : unit_work(t)
  \/ \E t \in Tests : ProcessAlive /\ Record(t)

vars == <<runnerVars, dispatchVars>>

Spec == Init /\ [][Next]_vars

(***************************************************************************)
(* One call of InterruptibleThreadGroup.run_tasks_until_timeout            *)
(***************************************************************************)

\* The group alone, called with NumTests tasks that return, raise or never
\* return and record nothing.
InitGroup ==
  /\ ResultInit
  /\ GroupInit
  /\ ClassInit
  /\ test_pc = [t \in Tests |-> "unstarted"]
  /\ method = [t \in Tests |-> "none"]
  /\ task_called = [t \in Tests |-> 0]
  /\ finalizer_called = [t \in Tests |-> 0]
  /\ calls = 0
  /\ main_pc = "start"
  /\ summary = NoSummary
  /\ SubmissionChecked
  /\ DispatchInit
  /\ nprocesses = NumWorkers
  /\ cmds = MainCmds

GroupCall ==
  /\ run_tasks_until_timeout("joined")
  /\ UNCHANGED dispatchVars

NextGroup ==
  \/ GroupCall
  \/ start_and_wait
  \/ Timer
  \/ \E t \in Tests : unit_work(t)

SpecGroup == InitGroup /\ [][NextGroup]_vars

\* The same call with a list of any number of tasks, none included.
InitGroupAny ==
  /\ ResultInit
  /\ \E n \in 0..NumTests : GroupInitOf(n)
  /\ ClassInit
  /\ test_pc = [t \in Tests |-> "unstarted"]
  /\ method = [t \in Tests |-> "none"]
  /\ task_called = [t \in Tests |-> 0]
  /\ finalizer_called = [t \in Tests |-> 0]
  /\ calls = 0
  /\ main_pc = "start"
  /\ summary = NoSummary
  /\ SubmissionChecked
  /\ DispatchInit
  /\ nprocesses = NumWorkers
  /\ cmds = MainCmds

SpecGroupAny == InitGroupAny /\ [][NextGroup]_vars

(***************************************************************************)
(* One call of TimeoutTestRunner.run on tests that record nothing          *)
(***************************************************************************)

\* run called on a suite whose tests return, raise or never return without
\* having recorded an outcome.
NextRun ==
  \/ run
  \/ start_and_wait
  \/ Timer
  \/ \E t \in Tests : unit_work(t)

SpecRun == Init /\ [][NextRun]_vars

(***************************************************************************)
(* One call of TimeoutTestRunner.run on tests that pass                    *)
(***************************************************************************)

\* A test that records a success, which it may do after the freeze.
RecordSuccess(t) ==
  /\ ProcessAlive
  /\ addSuccess(t)
  /\ UNCHANGED <<calledVars, groupVars, mainVars, dispatchVars>>

\* run called on a suite whose tests record a success or nothing and return,
\* raise or never return.
NextRunPass ==
  \/ run
  \/ start_and_wait
  \/ Timer
  \/ \E t \in Tests : unit_work(t)
  \/ \E t \in Tests : RecordSuccess(t)

SpecRunPass == Init /\ [][NextRunPass]_vars

(***************************************************************************)
(* One call of process_one_submission                                      *)
(***************************************************************************)

\* process_one_submission called with any arguments, on a module whose tests
\* record nothing.
InitSubmission ==
  /\ ResultInit
  /\ GroupInit
  /\ ClassInit
  /\ test_pc = [t \in Tests |-> "unstarted"]
  /\ method = [t \in Tests |-> "none"]
  /\ task_called = [t \in Tests |-> 0]
  /\ finalizer_called = [t \in Tests |-> 0]
  /\ calls = 0
  /\ main_pc = "check_file"
  /\ summary = NoSummary
  /\ SubmissionInit
  /\ DispatchInit
  /\ nprocesses = NumWorkers
  /\ cmds = MainCmds

NextSubmission ==
  \/ process_one_submission
  \/ run
  \/ start_and_wait
  \/ Timer
  \/ \E t \in Tests : unit_work(t)

SpecSubmission == InitSubmission /\ [][NextSubmission]_vars

(***************************************************************************)
(* A SynchronizedTestResult and its clients                                *)
(***************************************************************************)

\* A result object held by a client: the threads of the tests call add* on
\* it, the client calls freeze() once and then summarize(all_tests).
InitResult ==
  /\ ResultInit
  /\ GroupInit
  /\ ClassInit
  /\ test_pc = [t \in Tests |-> "run"]
  /\ method = [t \in Tests |-> "none"]
  /\ task_called = [t \in Tests |-> 0]
  /\ finalizer_called = [t \in Tests |-> 0]
  /\ calls = 0
  /\ main_pc = "freeze"
  /\ summary = NoSummary
  /\ SubmissionChecked
  /\ DispatchInit
  /\ nprocesses = NumWorkers
  /\ cmds = MainCmds

ClientFreeze ==
  /\ freeze("summarize")
  /\ UNCHANGED <<threadVars, groupVars, classVars, summary, submissionVars,
                 dispatchVars>>

\* The client goes on to call freeze() once more.
ClientFreezeAgain ==
  /\ main_pc = "summarize"
  /\ main_pc' = "freeze"
  /\ UNCHANGED <<resultVars, threadVars, groupVars, classVars, summary,
                 submissionVars, dispatchVars>>

NextResult ==
  \/ \E t \in Tests : Record(t)
  \/ ClientFreeze
  \/ ClientFreezeAgain
  \/ summarize

SpecResult == InitResult /\ [][NextResult]_vars

(***************************************************************************)
(* One call of distribute_system_command                                   *)
(***************************************************************************)

NextDispatch ==
  \/ Spawn
  \/ \E w \in Workers : task(w)
  \/ \E j \in Jobs : ProcessExits(j)
  \/ \E j \in Jobs : ProcessDies(j)
  \/ JoinAndReturn

\* The runner is idle; the dispatcher is called with any number of workers
\* from one to NumWorkers.
InitDispatch ==
  /\ ResultInit
  /\ GroupInit
  /\ ClassInit
  /\ test_pc = [t \in Tests |-> "unstarted"]
  /\ method = [t \in Tests |-> "none"]
  /\ task_called = [t \in Tests |-> 0]
  /\ finalizer_called = [t \in Tests |-> 0]
  /\ calls = 0
  /\ main_pc = "setUpClass"
  /\ summary = NoSummary
  /\ SubmissionChecked
  /\ DispatchInit
  /\ cmds = MainCmds

SpecDispatch == InitDispatch /\ [][NextDispatch]_vars

\* A call of distribute_system_command with any arguments *cmds of
\* CmdsInputs.
InitCmds ==
  /\ ResultInit
  /\ GroupInit
  /\ ClassInit
  /\ test_pc = [t \in Tests |-> "unstarted"]
  /\ method = [t \in Tests |-> "none"]
  /\ task_called = [t \in Tests |-> 0]
  /\ finalizer_called = [t \in Tests |-> 0]
  /\ calls = 0
  /\ main_pc = "setUpClass"
  /\ summary = NoSummary
  /\ SubmissionChecked
  /\ DispatchInit

SpecCmds == InitCmds /\ [][NextDispatch]_vars

\* The same call while the clock runs.
NextProgress == NextDispatch \/ Tick

SpecProgress == InitDispatch /\ [][NextProgress]_vars

(***************************************************************************)
(* Properties                                                              *)
(***************************************************************************)

\* The tests recorded in the collection of category c.
Recorded(c) ==
  CASE c = "errors" -> Range(errors)
    [] c = "failures" -> Range(failures)
    [] c = "successes" -> Range(successes)
    [] c = "skipped" -> Range(skipped)
    [] c = "expectedFailures" -> Range(expectedFailures)
    [] c = "unexpectedSuccesses" -> Range(unexpectedSuccesses)

\* The seven categories of a Summary, as sets of identifiers.
SummarySets(s) ==
  <<s.errors, s.failures, Range(s.successes), s.skipped, s.expectedFailures,
    Range(s.unexpectedSuccesses), s.aborted>>

\* C1: in the Summary computed after any add* calls and freeze(), the seven
\* categories are pairwise disjoint and their union is the key set of
\* allTests.
C1_SummaryPartitionsAllTests ==
  summary # NoSummary =>
    LET sets == SummarySets(summary)
    IN /\ \A i, j \in 1..7 : i # j => sets[i] \cap sets[j] = {}
       /\ UNION {sets[i] : i \in 1..7} = summary.allTests

\* C2: once frozen is set (freeze() sets it before it returns), no step of
\* any thread changes one of the six collections or the flag: an add* call
\* made after freeze(), or overtaken by it, has no effect, and a call that
\* had the lock first has appended before frozen was set.
C2_WriteAfterFreezeIsNoOp ==
  [][frozen => (collections' = collections /\ frozen')]_vars

\* C2 witness: frozen, and every add* call the threads made has returned
\* without any collection holding a test: the calls came after the freeze.
C2_Witness ==
  /\ frozen
  /\ calls = MaxCalls
  /\ \A t \in Tests : test_pc[t] = "run"
  /\ \A c \in Categories : Recorded(c) = {}

\* C3: a test is in at most one of the six outcome collections.
C3_AtMostOneCategory ==
  \A t \in Tests : Cardinality({c \in Categories : t \in Recorded(c)}) <= 1

\* run_tasks_until_timeout has returned to run.
GroupReturned ==
  main_pc \in {"joined", "freeze", "freeze_locked", "tearDownClass",
               "return", "NameError"}

\* C4: when run_tasks_until_timeout has returned, either every task thread
\* has finished its task and finalizer and the counter is zero, or the timer
\* has called stop_all_tasks.
C4_ReturnsOnlyWhenStopped ==
  GroupReturned =>
    \/ tasks_running_count = 0 /\ \A t \in Tests : test_pc[t] = "done"
    \/ timer_pc = "done"

\* C4 witness: the call has returned through the counter, the timer asleep.
C4_Witness ==
  /\ main_pc = "joined"
  /\ timer_pc = "sleeping"
  /\ \A t \in Tests : test_pc[t] = "done"

\* C5: when the timer has called stop_all_tasks and a task never finishes,
\* the controller is not left blocked in wait().  (In such a state no thread
\* is left that could notify it: the counter cannot reach zero and the timer
\* is over, so the controlling call never returns.)
C5_TimerStopReleasesController ==
  (timer_pc = "done" /\ \E t \in Tests : test_pc[t] = "hung")
    => ctrl_pc # "waiting"

\* C6: when every task thread has finished its task, its finalizer and its
\* decrement and the timer has not fired, the controller is not blocked in
\* wait(): the last decrement has released it.  (In a state that breaks this
\* only the timer can still wake the controller.)
C6_LastDecrementReleasesController ==
  ((\A t \in Tests : test_pc[t] = "done") /\ timer_pc = "sleeping")
    => ctrl_pc # "waiting"

\* The call of run is over: it has returned its result or raised.
RunOver == main_pc \in {"returned", "NameError"}

\* C7: when the batch has ended on the timeout with no test having recorded
\* an outcome, there is a Summary, it lists every test in aborted and the six
\* other categories are empty.
C7_TimeoutAbortsAll ==
  (RunOver /\ timer_pc = "done" /\ calls = 0) =>
    /\ summary # NoSummary
    /\ summary.aborted = Tests
    /\ \A i \in 1..6 : SummarySets(summary)[i] = {}

\* C8: when the batch has ended with every test having recorded one outcome
\* before the timeout, there is a Summary, each test is in the category of
\* its outcome and aborted is empty.
C8_OutcomesInTheirCategory ==
  (/\ RunOver
   /\ timer_pc = "sleeping"
   /\ \A t \in Tests : Cardinality({c \in Categories : t \in Recorded(c)}) = 1)
  =>
    /\ summary # NoSummary
    /\ summary.errors = Recorded("errors")
    /\ summary.failures = Recorded("failures")
    /\ Range(summary.successes) = Recorded("successes")
    /\ summary.skipped = Recorded("skipped")
    /\ summary.expectedFailures = Recorded("expectedFailures")
    /\ Range(summary.unexpectedSuccesses) = Recorded("unexpectedSuccesses")
    /\ summary.aborted = {}

\* C9: distribute_system_command returns NumJobs results and the i-th is the
\* process of the i-th job.
C9_OneResultPerJobInOrder ==
  disp_pc = "done" =>
    /\ Len(returned) = NumJobs
    /\ \A i \in 1..Len(returned) : returned[i] = i

\* C10: no job is launched twice, and when the dispatcher returns every job
\* has been popped and launched once.
C10_LaunchedExactlyOnce ==
  /\ \A j \in Jobs : launches[j] <= 1
  /\ disp_pc = "done" => \A j \in Jobs : launches[j] = 1

\* r.terminate() has been called on the child of job j.
Terminated(j) == proc[j] \in {"term_sent", "killed"}

\* C11: the child of a job that was terminated on its timeout is no longer
\* running once the job is recorded in results, hence when the dispatcher
\* returns.
C11_TimedOutChildIsDeadWhenRecorded ==
  \A i \in 1..Len(results) :
    Terminated(results[i][2]) => ~Alive(results[i][2])

\* C12: every result the dispatcher returns carries a definite outcome, an
\* exit status or a timed-out marker: its returncode is never None, the value
\* of a Popen object whose process is not known to have ended.
C12_ResultIsStatusOrTimedOutMarker ==
  disp_pc = "done" =>
    \A i \in 1..Len(returned) : returncode[returned[i]] # "None"

\* A step of one of the threads of the call: the dispatcher or a worker.
ThreadStep == Spawn \/ (\E w \in Workers : task(w)) \/ JoinAndReturn

\* The scheduler does not stop all the threads for ever: while some thread can
\* take a step, some thread takes one.  Nothing is assumed of the child
\* processes, which may never exit.
FairSpecDispatch == SpecDispatch /\ WF_vars(ThreadStep)

\* C13: distribute_system_command returns in the end, for every number of
\* workers from 1 to NumWorkers, whether the children exit or not.
C13_DispatcherTerminates == <>(disp_pc = "done")

\* C13 witness: the dispatcher has returned and no child has exited by
\* itself: every job was launched and terminated on its timeout.
C13_Witness ==
  /\ disp_pc = "done"
  /\ \A j \in Jobs : Terminated(j)

\* subprocess.Popen raised for job j: a launch was made and no child exists.
LaunchFailed(j) == launches[j] > 0 /\ proc[j] = "none"

\* C19: when the dispatcher returns, every job whose own launch did not fail
\* has been launched and is recorded in results.
C19_LaunchFailureIsConfined ==
  disp_pc = "done" =>
    \A j \in Jobs :
      ~LaunchFailed(j) =>
        /\ launches[j] = 1
        /\ \E i \in 1..Len(results) : results[i][2] = j

C15_TearDownClassOncePerClass ==
  /\ ~frozen => \A c \in Classes : tearDownClassCalls[c] = 0
  /\ main_pc \in {"return", "returned", "NameError"} =>
       \A c \in Classes : tearDownClassCalls[c] = 1

\* C16: the call of run does not end by raising: when it is over it has
\* returned its result, frozen.
C16_RunReturnsItsResult ==
  RunOver => (main_pc = "returned" /\ frozen)

\* C20: when a task has raised, every other task thread has finished its task,
\* finalizer and decrement and the timer has called stop_all_tasks, the
\* controller is not left blocked in wait().  (In a state that breaks this no
\* thread is left that could notify it: the controlling call never returns.)
C20_RaisingTaskDoesNotBlockGroup ==
  (/\ \E t \in Tests : test_pc[t] = "raised"
   /\ \A t \in Tests : test_pc[t] \in {"raised", "done"}
   /\ timer_pc = "done")
  => ctrl_pc # "waiting"

\* The job of process_one_submission is over: it has exited or raised.
JobOver ==
  main_pc \in {"exit_0", "exit_1", "exit_2", "InvalidTestRoot", "ImportError",
               "NameError"}

\* C17: with a result file and no overwrite the job goes no further than its
\* exit(1): no test thread is started and the file is left as it was; with
\* overwrite requested, a valid test_root and an importable module, the job
\* ends with the result file holding the new Summary.
C17_ExistingResultSkippedUnlessOverwrite ==
  /\ (result_file = "old" /\ ~overwrite_existing_results) =>
       (main_pc \in {"check_file", "exit_1"} /\ started = 0)
  /\ (overwrite_existing_results /\ test_root_valid /\ module_importable
      /\ JobOver) =>
       (result_file = "new" /\ summary # NoSummary)

\* C18: when the test module cannot be imported the job ends in the import
\* error: run is never called, no Summary is computed and the result file is
\* left as it was.
C18_ImportFailureFailsJob ==
  ~module_importable =>
    /\ main_pc \in {"check_file", "exit_1", "check_root", "InvalidTestRoot",
                    "import", "ImportError"}
    /\ started = 0
    /\ summary = NoSummary
    /\ result_file \in {"absent", "old"}

\* C18 witness: the import of the module has failed and ended the job.
C18_Witness ==
  /\ ~module_importable
  /\ main_pc = "ImportError"

\* C21: once the aggregator is frozen, what summarize(all_tests) returns no
\* longer changes, whatever the test threads do, and a Summary computed after
\* the freeze is that value.
C21_SummaryFixedByFreeze ==
  [][frozen =>
       /\ Summarize(Tests)' = Summarize(Tests)
       /\ summary' # NoSummary => summary' = Summarize(Tests)]_vars

\* C21 witness: a Summary has been computed after the freeze and a test
\* thread is inside an add* call it began after the freeze.
C21_Witness ==
  /\ frozen
  /\ summary # NoSummary
  /\ \E t \in Tests : test_pc[t] = "locked"

\* C22: the aborted list of a Summary is allTests minus the union of the six
\* other categories, and a test is in it if and only if no outcome is
\* recorded for it.
C22_AbortedIsAllMinusUnion ==
  summary # NoSummary =>
    /\ summary.aborted =
         summary.allTests \ UNION {SummarySets(summary)[i] : i \in 1..6}
    /\ \A t \in Tests :
         t \in summary.aborted <=> \A c \in Categories : t \notin Recorded(c)

\* C22 witness: a Summary in which one test is aborted and another is not.
C22_Witness ==
  /\ summary # NoSummary
  /\ summary.aborted # {}
  /\ summary.aborted # Tests

\* C27: the frozen flag is false initially, is set only by the step of
\* freeze() that assigns it, and once true stays true, also through a second
\* freeze(), which changes nothing of the aggregator.
C27_FrozenIsOneWay ==
  /\ ~frozen
  /\ [][/\ frozen => frozen'
        /\ (~frozen /\ frozen') => main_pc = "freeze_locked"
        /\ (frozen /\ main_pc = "freeze_locked") =>
             (frozen' /\ collections' = collections)]_vars

\* C27 witness: a second freeze() holds the lock, the flag already set.
C27_Witness ==
  /\ frozen
  /\ main_pc = "freeze_locked"

\* The order of precedence of getStatusAsString and its texts.
StatusOrder ==
  <<"errors", "failures", "successes", "skipped", "expectedFailures",
    "unexpectedSuccesses">>

StatusText ==
  <<"Completed with error", "Completed with failure",
    "Completed with success", "Skipped", "Completed with expected failure",
    "Completed with unexpected success">>

\* C28: getStatusAsString(t) is the text of the first category, in the order
\* error, failure, success, skip, expectedFailure, unexpectedSuccess, that
\* holds t, and 'Not completed' exactly when none holds it.
C28_StatusIsFirstCategory ==
  \A t \in Tests :
    LET holding == {i \in 1..6 : t \in Recorded(StatusOrder[i])}
    IN IF holding = {}
         THEN GetStatusAsString(t) = "Not completed"
         ELSE \E i \in holding :
                /\ \A k \in holding : i <= k
                /\ GetStatusAsString(t) = StatusText[i]

\* C28 witness: a test recorded both as a success and as an error.
C28_Witness ==
  \E t \in Tests : t \in Recorded("successes") /\ t \in Recorded("errors")

\* C24: the thread of index i calls tasks[i], and comes to finalizers[i] only
\* after its own task has returned and before its decrement.
C24_ThreadRunsItsOwnTask ==
  \A t \in Tests :
    /\ task_called[t] # 0 => task_called[t] = t
    /\ finalizer_called[t] # 0 =>
         /\ finalizer_called[t] = t
         /\ test_pc[t] \in {"count", "counting", "done"}

\* C26: once is_running has been cleared by the counter reaching zero or by
\* stop_all_tasks it is never set again.
C26_RunningStateNeverRestarts ==
  [][(~is_running /\ (tasks_running_count = 0 \/ timer_pc = "done"))
       => ~is_running']_vars

\* The order of the steps of run, as far as one state shows it: a test thread
\* is started only when the setUpClass pass is complete, the freeze begins
\* only when the controlling call has returned, which needs the Controller
\* thread to be over, and the tearDownClass pass is made only when frozen.
RunOrder ==
  /\ started > 0 =>
       (main_pc # "setUpClass" /\ \A c \in Classes : setUpClassCalls[c] = 1)
  /\ (frozen \/ main_pc \in {"freeze", "freeze_locked"}) =>
       (ctrl_pc = "done" /\ GroupReturned)
  /\ main_pc \in {"return", "returned", "NameError"} => frozen
  /\ (\E c \in Classes : tearDownClassCalls[c] > 0) => frozen

\* C25: every step of a call of run keeps the order of its steps, and no step
\* made once the aggregator is frozen changes a collection.
C25_RunStepsInOrder ==
  [][/\ RunOrder
     /\ RunOrder'
     /\ frozen => \A c \in Categories : Recorded(c)' = Recorded(c)]_vars

\* C25 witness: run has frozen the aggregator and is at its tearDownClass
\* pass while a test thread that outlived the timeout is inside an add* call.
C25_Witness ==
  /\ main_pc = "tearDownClass"
  /\ frozen
  /\ \E t \in Tests : test_pc[t] = "locked"

\* The statuses of a child process that exited by itself.
ExitStatuses == {"exit_zero", "exit_nonzero"}

\* The jobs whose (id, r) is in results.
RecordedJobs == {results[i][2] : i \in 1..Len(results)}

\* C29: a step sends SIGTERM to the child of job j only if it is the step of
\* a worker that holds j, whose polling loop ended because the timeout had
\* elapsed, and that finds the child alive at the poll that follows the loop;
\* a child that exited by itself is never terminated afterwards, and the
\* object recorded for it holds its exit status.
C29_TerminatedOnlyOnTimeout ==
  [][/\ \A j \in Jobs :
          (~Terminated(j) /\ Terminated(j)') =>
            \E w \in Workers :
              /\ worker_pc[w] = "check"
              /\ item[w] # None
              /\ item[w][2] = j
              /\ timed_out[w]
              /\ Alive(j)
     /\ \A j \in Jobs : proc[j] \in ExitStatuses => proc'[j] = proc[j]
     /\ \A j \in RecordedJobs' :
          proc'[j] \in ExitStatuses => returncode'[j] = proc'[j]]_vars

\* C29 witness: one job was terminated on its timeout, another exited by
\* itself and is recorded with its exit status.
C29_Witness ==
  \E j, k \in Jobs :
    /\ Terminated(j)
    /\ k \in RecordedJobs
    /\ proc[k] \in ExitStatuses
    /\ returncode[k] = proc[k]

\* The jobs launched and not yet recorded.
InFlight == {j \in Jobs : proc[j] # "none" /\ j \notin RecordedJobs}

\* The workers that hold job j between its launch and its recording.
Holders(j) ==
  {w \in Workers :
     /\ worker_pc[w] \in {"poll", "check", "record", "append"}
     /\ item[w] # None
     /\ item[w][2] = j}

\* C30: at most nprocesses jobs are launched and not yet recorded, and each
\* of them is the item of exactly one worker thread, which is between its
\* Popen call and its append: a worker at its pop holds no such job.
C30_AtMostOneJobPerWorker ==
  /\ Cardinality(InFlight) <= nprocesses
  /\ \A j \in InFlight : Cardinality(Holders(j)) = 1

\* C30 witness: both worker threads of a pool of two have a job in flight.
C30_Witness == nprocesses = NumWorkers /\ Cardinality(InFlight) = nprocesses

\* C23: the k-th progress line is printed when k jobs are recorded; k is not
\* 0, the estimate is a quotient with a divisor that is not 0 and equals
\* (E / k) * (N - k) / 60, E being the time elapsed from the start, and it
\* is 0 when k = N; every recorded job has its line once the recording
\* worker has left the lock.
C23_TimeLeftEstimate ==
  /\ \A i \in 1..Len(progress) :
       LET k == progress[i].tasks_done
           E == progress[i].time_elapsed
           est == progress[i].projected_time
       IN /\ k = i
          /\ k # 0
          /\ est[2] # 0
          /\ est[1] * (k * SecondsPerMinute) = (E * (NumJobs - k)) * est[2]
          /\ k = NumJobs => est[1] = 0
  /\ Len(progress) <= Len(results)
  /\ (\A w \in Workers : worker_pc[w] # "print") =>
       Len(progress) = Len(results)

\* C23 witness: time has passed, a line with an estimate above 0 was printed
\* and the line of the last job was printed.
C23_Witness ==
  /\ Len(progress) = NumJobs
  /\ progress[1].time_elapsed > 0
  /\ progress[1].projected_time[1] > 0

\* C31: the i-th progress line shows the count i, so the counts are 1, 2,
\* ... with none repeated or skipped; there is one line for every recorded
\* job as soon as the recording worker has left the lock, never more lines
\* than recorded jobs, and the lines go up to NumJobs when the dispatcher has
\* returned and every job was launched.
C31_OneLinePerRecordedJob ==
  /\ \A i \in 1..Len(progress) : progress[i].tasks_done = i
  /\ Len(progress) <= Len(results)
  /\ Len(results) <= Len(progress) + 1
  /\ (\A w \in Workers : worker_pc[w] # "print") =>
       Len(progress) = Len(results)
  /\ (disp_pc = "done" /\ \A j \in Jobs : ~LaunchFailed(j)) =>
       Len(progress) = NumJobs

\* C31 witness: both lines are printed, and the job popped last was recorded
\* first, by another worker than the job popped first.
C31_Witness ==
  /\ Len(progress) = NumJobs
  /\ Len(results) = NumJobs
  /\ results[1][1] = 0

\* C32: the total of the progress lines is the number of jobs queued by the
\* call; when the dispatcher has returned and every queued job was launched,
\* it has returned that many results and the last progress line shows
\* total/total.
C32_TotalIsQueueLength ==
  /\ (disp_pc = "spawn" /\ spawned = 0) => total_task_count = Len(queue)
  /\ (disp_pc = "done" /\ \A j \in Jobs : ~LaunchFailed(j)) =>
       /\ Len(returned) = total_task_count
       /\ progress # <<>> =>
            progress[Len(progress)].tasks_done = total_task_count

\* C34: when the tests of the submission have run and the job is over, the
\* Summary has been computed and written to the result file, and the job has
\* ended in exit(2) if and only if the Summary lists an aborted test.
C34_SummaryWrittenAfterTests ==
  (JobOver /\ frozen) =>
    /\ summary # NoSummary
    /\ result_file = "new"
    /\ main_pc = "exit_2" <=> summary.aborted # {}

\* The task threads that have completed their task and their finalizer, and
\* those of them that have also made their decrement.
Completed == {t \in Tests : test_pc[t] \in {"count", "counting", "done"}}

Decremented_Threads == {t \in Tests : test_pc[t] = "done"}

\* A step changes tasks_running_count only while running_status_lock is held.
CounterChangedUnderLock ==
  tasks_running_count' # tasks_running_count => running_status_lock

\* C35 as stated: tasks_running_count is between 0 and ntasks and equals
\* ntasks minus the number of task threads that have completed their task
\* and their finalizer, and it is changed only under the lock.
C35_CounterIsTasksNotCompleted ==
  /\ [](/\ tasks_running_count \in 0..ntasks
        /\ tasks_running_count = ntasks - Cardinality(Completed))
  /\ [][CounterChangedUnderLock]_vars

\* C35, amended: tasks_running_count is between 0 and ntasks and equals
\* ntasks minus the number of task threads that have made their decrement,
\* each of which has completed its task and its finalizer before; it is
\* changed only under the lock.
C35_CounterIsTasksNotDecremented ==
  /\ [](/\ tasks_running_count \in 0..ntasks
        /\ tasks_running_count = ntasks - Cardinality(Decremented_Threads)
        /\ \A t \in Decremented_Threads :
             task_called[t] # 0 /\ finalizer_called[t] # 0)
  /\ [][CounterChangedUnderLock]_vars

\* C35 witness: one thread has made its decrement and another has completed
\* its task and finalizer and has not yet got the lock for its decrement.
C35_Witness ==
  /\ tasks_running_count = ntasks - 1
  /\ \E t \in Tests : test_pc[t] = "count"
  /\ \E t \in Tests : test_pc[t] = "done"

\* C33: with an empty task list no task thread is started and the counter
\* stays as it is, and run_tasks_until_timeout has returned only if the timer
\* has called stop_all_tasks.
C33_EmptyGroupLastsUntilTimer ==
  ntasks = 0 =>
    /\ tasks_running_count = 0
    /\ started = 0
    /\ \A t \in Tests : test_pc[t] = "unstarted"
    /\ GroupReturned => timer_pc = "done"

\* C33 witness: a call with no task has returned, after the timer.
C33_Witness ==
  /\ ntasks = 0
  /\ main_pc = "joined"
  /\ timer_pc = "done"

====
